---- MODULE Spec2Model ----
(***************************************************************************)
(* Model of the Cards-Against-Humanity rules engine: the guarded finite    *)
(* state machine FSM and the Game built on it.                             *)
(*                                                                         *)
(* Objects are modelled as records.  A JavaScript null is the record NULL, *)
(* undefined is the record UNDEFINED, a Player reference is the record     *)
(* [id |-> n], a WhiteCard is [text |-> s], a BlackCard is [text |-> seq]  *)
(* whose tokens are [str |-> s] (a literal) or [num |-> n] (a slot).       *)
(* The fields of a Player (cards, played, points) live in the functions    *)
(* hand, played and points, because a Player object outlives its           *)
(* membership in Game.players.                                             *)
(*                                                                         *)
(* Every method is an operator from a game record g to the SET of its      *)
(* possible outcomes [g |-> game after the call, ret |-> returned value];  *)
(* the set has more than one element where the code draws at random.       *)
(* ret is "throw" when the call raises instead of returning.               *)
(***************************************************************************)
EXTENDS Integers, Sequences, FiniteSets, TLC

VARIABLES state, host, tsar, players, cards, blackCard, settings,
          hand, played, points, created, direct, last, cols, shown, fsm

\* the Game, its callers' Players and the record of the last call
gameVars == <<state, host, tsar, players, cards, blackCard, settings,
              hand, played, points, created, direct>>

vars == <<gameVars, last, cols, shown, fsm>>

-----------------------------------------------------------------------------
(* Bounds of the model *)

\* number of Player objects the callers construct
NumPlayers == 4
\* number of direct game.setState calls the callers make
MaxDirect == 1
\* number of CardCollection objects the callers create, and of successful
\* merge calls they make on them
NumCols == 2
MaxMerges == 2
\* longest token list of a BlackCard and longest argument list of getDisplay
MaxTokens == 3
MaxArgs == 2
\* largest number of hooks of one kind the callers register on one state
MaxHooks == 2
\* settings.playerCards, settings.winPoints, settings.gamePlayerCount:
\* tunable settings, fixed here to small values
PlayerCards == 1
WinPoints == 2
GamePlayerCount == 3

\* the number of players the to hook of PLAYING asks for
MinPlayers == 3

-----------------------------------------------------------------------------
(* Values *)

NULL == [null |-> TRUE]
UNDEFINED == [undefined |-> TRUE]
\* Game.players once it has been set to null: a sequence that no list of
\* players equals (TLC compares a sequence only with a sequence)
NullPlayers == <<NULL>>

Player(n) == [id |-> n]
Pool == {Player(n) : n \in 1..NumPlayers}

WhiteCard(s) == [text |-> s]
BlackCard(toks) == [text |-> toks]
Str(s) == [str |-> s]
Num(n) == [num |-> n]

\* instanceof WhiteCard
IsWhiteCard(c) == "text" \in DOMAIN c

\* typeof(val) === 'number'
IsNumber(tok) == "num" \in DOMAIN tok

Range(s) == {s[i] : i \in 1..Len(s)}

\* arr[i] for a 0-based i that may be out of range
At(arr, i) == IF i >= 0 /\ i < Len(arr) THEN arr[i + 1] ELSE UNDEFINED

\* Array.prototype.indexOf
IndexOf(arr, x) ==
    IF \E i \in 1..Len(arr) : arr[i] = x
    THEN (CHOOSE i \in 1..Len(arr) : arr[i] = x /\ \A j \in 1..(i - 1) : arr[j] # x) - 1
    ELSE -1

\* arr.splice(index, 1) on the array itself: a negative index counts from the end
Splice1(arr, index) ==
    LET start == IF index < 0 THEN (IF Len(arr) + index < 0 THEN 0 ELSE Len(arr) + index)
                 ELSE (IF index > Len(arr) THEN Len(arr) ELSE index)
    IN [i \in 1..(IF start < Len(arr) THEN Len(arr) - 1 ELSE Len(arr)) |->
            IF i <= start THEN arr[i] ELSE arr[i + 1]]

\* the deck the callers merge into game.cards (after CAH2_test.js col1)
Col1 == [name  |-> "Testing-1",
         white |-> <<WhiteCard("Christmas")>>,
         black |-> <<BlackCard(<<Str("The "), Num(0), Str(".")>>)>>]

Collections == {Col1}

\* new CardCollection()
EmptyCollection == [white |-> <<>>, black |-> <<>>, from |-> <<>>]

StateNames == {"INIT", "KILLED", "EMPTY", "WAITING", "DEALING", "PLAYING",
               "INBETWEENTURN", "TSARTURN", "ENDGAME"}

DefaultSettings == [playerCards |-> PlayerCards, winPoints |-> WinPoints,
                    gamePlayerCount |-> GamePlayerCount]

-----------------------------------------------------------------------------
(* Card model *)

RECURSIVE Dedup(_, _)
Dedup(s, seen) ==
    IF s = <<>> THEN <<>>
    ELSE IF Head(s) \in seen THEN Dedup(Tail(s), seen)
         ELSE <<Head(s)>> \o Dedup(Tail(s), seen \cup {Head(s)})

\* getFillSpots without the removal of duplicates
getFillSpots_All(card) ==
    LET values == SelectSeq(card.text, IsNumber)
    IN [i \in 1..Len(values) |-> values[i].num]

\* BlackCard#getFillSpots
getFillSpots(card) ==
    LET values == SelectSeq(card.text, IsNumber)
    IN Dedup([i \in 1..Len(values) |-> values[i].num], {})

\* BlackCard#getFillCount
getFillCount(card) == Len(getFillSpots(card))

\* BlackCard#getDisplay(true, ...args): [text |-> s], or [thrown |-> error]
RECURSIVE getDisplayFill(_, _)
getDisplayFill(toks, args) ==
    IF toks = <<>> THEN [text |-> ""]
    ELSE LET val == Head(toks) IN
         IF IsNumber(val) /\ val.num > Len(args) - 1 THEN [thrown |-> "RangeError"]
         ELSE IF IsNumber(val) /\ ~IsWhiteCard(At(args, val.num)) THEN [thrown |-> "TypeError"]
         ELSE LET rest == getDisplayFill(Tail(toks), args) IN
              IF "thrown" \in DOMAIN rest THEN rest
              ELSE [text |-> (IF IsNumber(val) THEN At(args, val.num).text ELSE val.str) \o rest.text]

-----------------------------------------------------------------------------
(* Outcomes *)

Out(g, r) == [g |-> g, ret |-> r]
Thrown(o) == o.ret = "throw"

\* new Game(): FSM's constructor enters INIT, Game's constructor registers
\* the other eight states and leaves INIT current.  path lists the changes
\* of this.state made by the running call, as pairs <<from, to>>, and
\* events the "state:leaving" and "state:entering" notifications it emitted.
NewGame ==
    [state |-> "INIT", host |-> NULL, tsar |-> NULL, players |-> <<>>,
     cards |-> EmptyCollection, blackCard |-> NULL, settings |-> DefaultSettings,
     hand |-> [p \in Pool |-> <<>>], played |-> [p \in Pool |-> <<>>],
     points |-> [p \in Pool |-> 0], path |-> <<>>, events |-> <<>>]

-----------------------------------------------------------------------------
(* FSM engine *)

\* combineBooleans taking a hook that returns no boolean for a refusal
combineBooleans_VoidVetoes(arr) == \A i \in 1..Len(arr) : arr[i] = "true"

\* combineBooleans: AND of the booleans of arr, anything else is ignored
RECURSIVE combineBooleans(_)
combineBooleans(arr) ==
    IF arr = <<>> THEN TRUE
    ELSE LET prev == combineBooleans(SubSeq(arr, 1, Len(arr) - 1))
             cur  == arr[Len(arr)]
         IN IF cur \in {"true", "false"} THEN prev /\ (cur = "true") ELSE prev

\* a boolean returned by a hook
Bool(b) == IF b THEN "true" ELSE "false"

\* The to hooks registered on each state by FSM's and Game's constructors:
\* the values they return, in registration order ("throw": the hook raises)
toHooks(g, name) ==
    CASE name = "INIT"          -> <<Bool(Cardinality(StateNames) = 1)>>
      [] name = "KILLED"        -> IF g.players = NullPlayers THEN <<"throw">>
                                   ELSE <<Bool(Len(g.players) = 0)>>
      [] name = "WAITING"       -> IF g.players = NullPlayers THEN <<"throw">>
                                   ELSE <<Bool(Len(g.players) >= 1)>>
      [] name = "DEALING"       -> <<Bool(g.state \in {"WAITING", "PLAYING", "INBETWEENTURN", "TSARTURN"})>>
      [] name = "PLAYING"       -> IF g.players = NullPlayers THEN <<"throw">>
                                   ELSE <<Bool(Len(g.players) >= MinPlayers)>>
      [] name = "INBETWEENTURN" -> <<Bool(g.state = "PLAYING")>>
      [] name = "TSARTURN"      -> <<Bool(g.state = "INBETWEENTURN")>>
      [] name = "ENDGAME"       -> <<Bool(g.state = "TSARTURN")>>
      [] OTHER                  -> <<>>

\* fromHooks with ENDGAME's from hook letting every target through
fromHooks_EndgameLets(g, name, to) ==
    CASE name = "KILLED"        -> <<Bool(FALSE)>>
      [] name = "EMPTY"         -> <<Bool(to = "WAITING")>>
      [] name = "PLAYING"       -> <<Bool(to = "WAITING" \/ to = "INBETWEENTURN")>>
      [] name = "INBETWEENTURN" -> <<Bool(to = "TSARTURN")>>
      [] name = "TSARTURN"      -> <<Bool(to = "DEALING")>>
      [] name = "ENDGAME"       -> <<Bool(TRUE)>>
      [] OTHER                  -> <<>>

\* fromHooks with KILLED's from hook letting every target through
fromHooks_KilledLets(g, name, to) ==
    CASE name = "KILLED"        -> <<Bool(TRUE)>>
      [] name = "EMPTY"         -> <<Bool(to = "WAITING")>>
      [] name = "PLAYING"       -> <<Bool(to = "WAITING" \/ to = "INBETWEENTURN")>>
      [] name = "INBETWEENTURN" -> <<Bool(to = "TSARTURN")>>
      [] name = "TSARTURN"      -> <<Bool(to = "DEALING")>>
      [] name = "ENDGAME"       -> <<Bool(FALSE)>>
      [] OTHER                  -> <<>>

\* fromHooks with PLAYING's from hook letting only INBETWEENTURN through
fromHooks_PlayingKeepsRound(g, name, to) ==
    CASE name = "KILLED"        -> <<Bool(FALSE)>>
      [] name = "EMPTY"         -> <<Bool(to = "WAITING")>>
      [] name = "PLAYING"       -> <<Bool(to = "INBETWEENTURN")>>
      [] name = "INBETWEENTURN" -> <<Bool(to = "TSARTURN")>>
      [] name = "TSARTURN"      -> <<Bool(to = "DEALING")>>
      [] name = "ENDGAME"       -> <<Bool(FALSE)>>
      [] OTHER                  -> <<>>

\* The from hooks registered on each state, called with the target `to`
fromHooks(g, name, to) ==
    CASE name = "KILLED"        -> <<Bool(FALSE)>>
      [] name = "EMPTY"         -> <<Bool(to = "WAITING")>>
      [] name = "PLAYING"       -> <<Bool(to = "WAITING" \/ to = "INBETWEENTURN")>>
      [] name = "INBETWEENTURN" -> <<Bool(to = "TSARTURN")>>
      [] name = "TSARTURN"      -> <<Bool(to = "DEALING")>>
      [] name = "ENDGAME"       -> <<Bool(FALSE)>>
      [] OTHER                  -> <<>>

\* unsetHooks without KILLED's unset hook
unsetHooks_None(g, name, to) == <<>>

\* The unset hooks registered on each state: only KILLED has one, and it raises
unsetHooks(g, name, to) ==
    IF name = "KILLED" THEN <<"throw">> ELSE <<>>

\* randomIndex(length): Math.floor(Math.random() * length)
randomIndex(length) == IF length > 0 THEN 0..(length - 1) ELSE {0}

\* CardCollection#getRandomCard(color, true): a clone of a random card, or null
getRandomCard(col, color) ==
    {IF At(col[color], i) = UNDEFINED THEN NULL ELSE At(col[color], i) :
        i \in randomIndex(Len(col[color]))}

getRandomWhiteCard(col) == getRandomCard(col, "white")
getRandomBlackCard(col) == getRandomCard(col, "black")

\* Player#fillCards dealing nothing
fillCards_None(cs, playerCards, col) == {cs}

\* Player#fillCards: the hands that can result
RECURSIVE fillCards(_, _, _)
fillCards(cs, playerCards, col) ==
    IF playerCards - Len(cs) <= 0 THEN {cs}
    ELSE UNION {fillCards(Append(cs, c), playerCards, col) : c \in getRandomWhiteCard(col)}

\* Game#fillPlayersCards
fillPlayersCards(g, player) ==
    {[g EXCEPT !.hand[player] = cs] :
        cs \in fillCards(g.hand[player], g.settings.playerCards, g.cards)}

\* Game#fillAllPlayersCards, from the i-th player on
RECURSIVE fillAllPlayersCardsFrom(_, _)
fillAllPlayersCardsFrom(g, i) ==
    IF i > Len(g.players) THEN {g}
    ELSE UNION {fillAllPlayersCardsFrom(g1, i + 1) : g1 \in fillPlayersCards(g, g.players[i])}

fillAllPlayersCards(g) == fillAllPlayersCardsFrom(g, 1)

\* Game#removePlayerPlayedCards: the played positions are set to null, nulls are filtered out
removePlayerPlayedCards(g, player) ==
    IF Len(g.played[player]) > 0
    THEN LET cs   == g.hand[player]
             keep == {i \in 1..Len(cs) : (i - 1) \notin Range(g.played[player]) /\ cs[i] # NULL}
             F[i \in 0..Len(cs)] ==
                 IF i = 0 THEN <<>>
                 ELSE IF i \in keep THEN Append(F[i - 1], cs[i]) ELSE F[i - 1]
         IN [g EXCEPT !.hand[player] = F[Len(cs)], !.played[player] = <<>>]
    ELSE g

\* Game#removePlayersPlayedCards, from the i-th player on
RECURSIVE removePlayersPlayedCardsFrom(_, _)
removePlayersPlayedCardsFrom(g, i) ==
    IF i > Len(g.players) THEN g
    ELSE removePlayersPlayedCardsFrom(removePlayerPlayedCards(g, g.players[i]), i + 1)

removePlayersPlayedCards(g) == removePlayersPlayedCardsFrom(g, 1)

\* Game#chooseTsar
chooseTsar(g) ==
    {[g EXCEPT !.tsar = At(g.players, i)] : i \in randomIndex(Len(g.players))}

\* Game#chooseBlackCard
chooseBlackCard(g) ==
    {[g EXCEPT !.blackCard = b] : b \in getRandomBlackCard(g.cards)}

RECURSIVE setState(_, _, _, _)

\* The set hooks registered on each state, run with g.state already `name`
setHooks(g, name, lastState) ==
    CASE name = "KILLED" ->
            {Out([g EXCEPT !.host = NULL, !.tsar = NULL, !.players = NullPlayers, !.cards = NULL,
                           !.blackCard = NULL, !.settings = NULL], "void")}
      [] name = "WAITING" ->
            IF g.players = NullPlayers THEN {Out(g, "throw")}
            ELSE {Out([g EXCEPT !.hand = [p \in Pool |-> IF p \in Range(g.players) THEN <<>>
                                                         ELSE g.hand[p]]], "void")}
      [] name = "DEALING" ->
            IF g.players = NullPlayers THEN {Out(g, "throw")} ELSE
            LET dealt == UNION {UNION {chooseBlackCard(g3) : g3 \in chooseTsar(g2)} :
                                    g2 \in fillAllPlayersCards(removePlayersPlayedCards(g))}
            IN UNION {{Out(o.g, IF Thrown(o) THEN "throw" ELSE "void") :
                            o \in setState(g4, "PLAYING", FALSE, FALSE)} : g4 \in dealt}
      [] OTHER -> {Out(g, "void")}

\* this.emit(kind, this, of, other) for the two notifications of a change of
\* state; the subscribers only listen
Emit(g, kind, of, other) ==
    [g EXCEPT !.events = Append(@, [kind |-> kind, of |-> of, other |-> other])]

\* setState with forceTo, not forceFrom, overriding the refusal of the target
setState_ForceTo(g, name, forceFrom, forceTo) ==
    IF name \notin StateNames THEN {Out(g, "false")}
    ELSE LET fromResults == IF ~forceFrom THEN fromHooks(g, g.state, name) ELSE <<>>
             stateAllows == combineBooleans(fromResults)
         IN IF ~stateAllows THEN {Out(g, "false")}
            ELSE LET toResults   == toHooks(g, name)
                     futureState == combineBooleans(toResults)
                 IN IF "throw" \in Range(toResults) THEN {Out(g, "throw")}
                    ELSE IF ~forceTo /\ ~futureState THEN {Out(g, "false")}
                    ELSE IF "throw" \in Range(unsetHooks(g, g.state, name)) THEN {Out(g, "throw")}
                    ELSE {IF Thrown(o) THEN o ELSE Out(Emit(o.g, "state:entering", o.g.state, g.state), "true") :
                            o \in setHooks(Emit([g EXCEPT !.state = name, !.path = Append(@, <<g.state, name>>)],
                                                 "state:leaving", g.state, name), name, g.state)}

\* setState without the lookup of the name among the registered states
setState_AnyName(g, name, forceFrom, forceTo) ==
    LET fromResults == IF ~forceFrom THEN fromHooks(g, g.state, name) ELSE <<>>
        stateAllows == combineBooleans(fromResults)
    IN IF ~stateAllows THEN {Out(g, "false")}
       ELSE LET toResults   == toHooks(g, name)
                futureState == combineBooleans(toResults)
            IN IF "throw" \in Range(toResults) THEN {Out(g, "throw")}
               ELSE IF ~forceFrom /\ ~futureState THEN {Out(g, "false")}
               ELSE IF "throw" \in Range(unsetHooks(g, g.state, name)) THEN {Out(g, "throw")}
               ELSE {IF Thrown(o) THEN o ELSE Out(Emit(o.g, "state:entering", o.g.state, g.state), "true") :
                       o \in setHooks(Emit([g EXCEPT !.state = name, !.path = Append(@, <<g.state, name>>)],
                                            "state:leaving", g.state, name), name, g.state)}

\* FSM#setState(name, forceFrom, forceTo); this.state is never null once the
\* FSM constructor has run
setState(g, name, forceFrom, forceTo) ==
    IF name \notin StateNames THEN {Out(g, "false")}
    ELSE LET fromResults == IF ~forceFrom THEN fromHooks(g, g.state, name) ELSE <<>>
             stateAllows == combineBooleans(fromResults)
         IN IF ~stateAllows THEN {Out(g, "false")}
            ELSE LET toResults   == toHooks(g, name)
                     futureState == combineBooleans(toResults)
                 IN IF "throw" \in Range(toResults) THEN {Out(g, "throw")}
                    ELSE IF ~forceFrom /\ ~futureState THEN {Out(g, "false")}
                    ELSE IF "throw" \in Range(unsetHooks(g, g.state, name)) THEN {Out(g, "throw")}
                    ELSE {IF Thrown(o) THEN o ELSE Out(Emit(o.g, "state:entering", o.g.state, g.state), "true") :
                            o \in setHooks(Emit([g EXCEPT !.state = name, !.path = Append(@, <<g.state, name>>)],
                                                 "state:leaving", g.state, name), name, g.state)}

\* run F on the game of every outcome that did not raise; a raise propagates
Bind(outs, F(_)) == UNION {IF Thrown(o) THEN {o} ELSE F(o.g) : o \in outs}

\* the same outcomes, returning r
Returning(outs, r) == {IF Thrown(o) THEN o ELSE Out(o.g, r) : o \in outs}

-----------------------------------------------------------------------------
(* FSM with hooks registered by its callers *)

\* What a hook does when it is called.  A hook is stateless, so it is
\* modelled by this result.  A from or to hook returns boolean | void
\* (FSM_TriggerCallback_General); a set or unset hook returns anything, which
\* is ignored, or raises, as the unset hook of the Game's KILLED state does.
GuardResults == {"true", "false", "void"}
GuardLists == UNION {[1..n -> GuardResults] : n \in 0..MaxHooks}
EffectResults == {"void", "throw"}

\* the states of an FSM on which the callers ran addState("A"), addState("B")
RegisteredStates == {"INIT", "A", "B"}

\* this.states after the FSM constructor and the callers' registrations:
\* INIT has the constructor's to hook, A the from hooks fromA and the unset
\* hook unsetA, B the to hooks toB and the set hook setB
Registry(fromA, unsetA, toB, setB) ==
    [s \in RegisteredStates |->
        IF s = "INIT"
        THEN [from |-> <<>>, to |-> <<Bool(Cardinality(RegisteredStates) = 1)>>,
              set |-> <<>>, unset |-> <<>>]
        ELSE IF s = "A"
        THEN [from |-> fromA, to |-> <<>>, set |-> <<>>, unset |-> <<unsetA>>]
        ELSE [from |-> <<>>, to |-> toB, set |-> <<setB>>, unset |-> <<>>]]

\* entries of the log of one call: the i-th hook of a kind of a state was
\* invoked, or a notification about a state was emitted
Invoked(kind, of, i) == [ev |-> "hook", kind |-> kind, of |-> of, i |-> i]
Emitted(kind, of) == [ev |-> "emit", kind |-> kind, of |-> of, i |-> 0]

\* trigger that stops after the first hook that returns false
trigger_ShortCircuit(f, stateName, transformName) ==
    LET hs      == f.hooks[stateName][transformName]
        stopped == {i \in 1..Len(hs) : hs[i] \in {"throw", "false"}}
        n       == IF stopped = {} THEN Len(hs)
                   ELSE CHOOSE i \in stopped : \A j \in stopped : i <= j
    IN [calls   |-> [i \in 1..n |-> Invoked(transformName, stateName, i)],
        results |-> SubSeq(hs, 1, n),
        thrown  |-> \E i \in 1..n : hs[i] = "throw"]

\* FSM#trigger: Array.map over the hooks of one kind, which stops at the
\* first hook that raises
trigger(f, stateName, transformName) ==
    LET hs     == f.hooks[stateName][transformName]
        raised == {i \in 1..Len(hs) : hs[i] = "throw"}
        n      == IF raised = {} THEN Len(hs)
                  ELSE CHOOSE i \in raised : \A j \in raised : i <= j
    IN [calls   |-> [i \in 1..n |-> Invoked(transformName, stateName, i)],
        results |-> hs,
        thrown  |-> raised # {}]

\* setState in which forceTo, too, overrides the refusal of the target
fsmSetState_ForceTo(f, name, forceFrom, forceTo) ==
    IF name \notin DOMAIN f.hooks
    THEN [f |-> [f EXCEPT !.log = <<Emitted("setState:non-exist-state", name)>>], ret |-> "false"]
    ELSE
    LET fromT == trigger(f, f.state, "from")
        log1  == IF forceFrom THEN <<>>
                 ELSE IF fromT.thrown THEN fromT.calls
                 ELSE fromT.calls \o <<Emitted("setState:from", name)>>
        toT   == trigger(f, name, "to")
        log2  == IF toT.thrown THEN log1 \o toT.calls
                 ELSE log1 \o toT.calls \o <<Emitted("setState:to", name)>>
        unT   == trigger(f, f.state, "unset")
        log3  == IF unT.thrown THEN log2 \o unT.calls
                 ELSE log2 \o unT.calls \o <<Emitted("state:leaving", f.state)>>
        setT  == trigger(f, name, "set")
        log4  == IF setT.thrown THEN log3 \o setT.calls
                 ELSE log3 \o setT.calls \o <<Emitted("state:entering", name)>>
    IN IF ~forceFrom /\ fromT.thrown THEN [f |-> [f EXCEPT !.log = log1], ret |-> "throw"]
       ELSE IF ~forceFrom /\ ~combineBooleans(fromT.results)
       THEN [f |-> [f EXCEPT !.log = log1], ret |-> "false"]
       ELSE IF toT.thrown THEN [f |-> [f EXCEPT !.log = log2], ret |-> "throw"]
       ELSE IF ~forceFrom /\ ~forceTo /\ ~combineBooleans(toT.results)
       THEN [f |-> [f EXCEPT !.log = log2], ret |-> "false"]
       ELSE IF unT.thrown THEN [f |-> [f EXCEPT !.log = log3], ret |-> "throw"]
       ELSE IF setT.thrown THEN [f |-> [f EXCEPT !.state = name, !.log = log4], ret |-> "throw"]
       ELSE [f |-> [f EXCEPT !.state = name, !.log = log4], ret |-> "true"]

\* FSM#setState on an FSM whose hooks are f.hooks; f.log is the log of the
\* call.  The result is the FSM after the call and the returned value.
fsmSetState(f, name, forceFrom, forceTo) ==
    IF name \notin DOMAIN f.hooks
    THEN [f |-> [f EXCEPT !.log = <<Emitted("setState:non-exist-state", name)>>], ret |-> "false"]
    ELSE
    LET fromT == trigger(f, f.state, "from")
        log1  == IF forceFrom THEN <<>>
                 ELSE IF fromT.thrown THEN fromT.calls
                 ELSE fromT.calls \o <<Emitted("setState:from", name)>>
        toT   == trigger(f, name, "to")
        log2  == IF toT.thrown THEN log1 \o toT.calls
                 ELSE log1 \o toT.calls \o <<Emitted("setState:to", name)>>
        unT   == trigger(f, f.state, "unset")
        log3  == IF unT.thrown THEN log2 \o unT.calls
                 ELSE log2 \o unT.calls \o <<Emitted("state:leaving", f.state)>>
        setT  == trigger(f, name, "set")
        log4  == IF setT.thrown THEN log3 \o setT.calls
                 ELSE log3 \o setT.calls \o <<Emitted("state:entering", name)>>
    IN IF ~forceFrom /\ fromT.thrown THEN [f |-> [f EXCEPT !.log = log1], ret |-> "throw"]
       ELSE IF ~forceFrom /\ ~combineBooleans(fromT.results)
       THEN [f |-> [f EXCEPT !.log = log1], ret |-> "false"]
       ELSE IF toT.thrown THEN [f |-> [f EXCEPT !.log = log2], ret |-> "throw"]
       ELSE IF ~forceFrom /\ ~combineBooleans(toT.results)
       THEN [f |-> [f EXCEPT !.log = log2], ret |-> "false"]
       ELSE IF unT.thrown THEN [f |-> [f EXCEPT !.log = log3], ret |-> "throw"]
       ELSE IF setT.thrown THEN [f |-> [f EXCEPT !.state = name, !.log = log4], ret |-> "throw"]
       ELSE [f |-> [f EXCEPT !.state = name, !.log = log4], ret |-> "true"]

-----------------------------------------------------------------------------
(* Game *)

\* Game#isTsar
isTsar(g, player) == g.tsar = player

\* Game#getPlayingPlayers
getPlayingPlayers(g) == SelectSeq(g.players, LAMBDA p : ~isTsar(g, p))

\* Game#isWinner
isWinner(g, player) == g.points[player] = g.settings.winPoints

\* Game#getWinners
getWinners(g) == SelectSeq(g.players, LAMBDA p : isWinner(g, p))

\* Game#kill without the force flags
kill_Unforced(g) == setState(g, "KILLED", FALSE, FALSE)

\* Game#kill
kill(g) == setState(g, "KILLED", TRUE, TRUE)

\* Game#hasPlayers
hasPlayers(g) == Len(g.players) > 0

\* Game#hasHost
hasHost(g) == g.host # NULL /\ g.host \in Range(g.players)

\* Game#setHostByIndex
setHostByIndex(g, index) ==
    IF At(g.players, index) \in Pool
    THEN Out([g EXCEPT !.host = At(g.players, index)], "true")
    ELSE Out(g, "false")

\* Game#findHost
findHost(g) ==
    IF ~hasHost(g)
    THEN IF g.players = NullPlayers THEN {Out(g, "throw")}
         ELSE IF ~hasPlayers(g) THEN Returning(kill(g), "false")
         ELSE {Out(setHostByIndex(g, 0).g, "true")}
    ELSE {Out(g, "false")}

\* Game#checkWinner that reports the winners without ending the game
checkWinner_NoEnd(g) ==
    IF Len(getWinners(g)) = 0 THEN {Out(g, "false")}
    ELSE {Out(g, "true")}

\* Game#checkWinner
checkWinner(g) ==
    IF Len(getWinners(g)) = 0 THEN {Out(g, "false")}
    ELSE Returning(setState(g, "ENDGAME", TRUE, TRUE), "true")

\* Game#donePlaying: "true", "false", or "throw" when there is no black card
donePlaying(g) ==
    IF g.state # "PLAYING" THEN "false"
    ELSE IF g.blackCard = NULL THEN "throw"
    ELSE LET ps        == getPlayingPlayers(g)
             fillCount == getFillCount(g.blackCard)
         IN Bool(\A i \in 1..Len(ps) : Len(g.played[g.players[i]]) = fillCount)

\* Game#getFilledInText: [text |-> s] or [thrown |-> error]
getFilledInText(g, player) ==
    IF g.blackCard = NULL THEN [thrown |-> "TypeError"]
    ELSE getDisplayFill(g.blackCard.text,
                        [i \in 1..Len(g.played[player]) |->
                            At(g.hand[player], g.played[player][i])])

\* Game#getFilledInCardsWithPlayer: [choices |-> pairs] or [thrown |-> error]
getFilledInCardsWithPlayer(g) ==
    LET ps    == getPlayingPlayers(g)
        texts == [i \in 1..Len(ps) |-> getFilledInText(g, ps[i])]
    IN IF \E i \in 1..Len(ps) : "thrown" \in DOMAIN texts[i]
       THEN [thrown |-> "Error"]
       ELSE [choices |-> [i \in 1..Len(ps) |-> [player |-> ps[i], text |-> texts[i].text]]]

\* chooseTurnWinnerByIndex taking the first choice whatever the index
chooseTurnWinnerByIndex_FirstChoice(g, t, index) ==
    IF ~isTsar(g, t) THEN {Out(g, "failure")}
    ELSE IF g.state # "TSARTURN" THEN {Out(g, "failure")}
    ELSE LET filled == getFilledInCardsWithPlayer(g) IN
         IF "thrown" \in DOMAIN filled THEN {Out(g, "throw")}
         ELSE IF index < 0 \/ index > Len(filled.choices) - 1 THEN {Out(g, "failure")}
         ELSE LET choice == filled.choices[1]
                  g1     == [g EXCEPT !.points[choice.player] = @ + 1]
              IN UNION {IF Thrown(o) THEN {o}
                        ELSE IF o.ret = "false"
                             THEN Returning(setState(o.g, "DEALING", FALSE, FALSE), "success")
                             ELSE {Out(o.g, "success")} : o \in checkWinner(g1)}

\* Game#chooseTurnWinnerByIndex
chooseTurnWinnerByIndex(g, t, index) ==
    IF ~isTsar(g, t) THEN {Out(g, "failure")}
    ELSE IF g.state # "TSARTURN" THEN {Out(g, "failure")}
    ELSE LET filled == getFilledInCardsWithPlayer(g) IN
         IF "thrown" \in DOMAIN filled THEN {Out(g, "throw")}
         ELSE IF index < 0 \/ index > Len(filled.choices) - 1 THEN {Out(g, "failure")}
         ELSE LET choice == filled.choices[index + 1]
                  g1     == [g EXCEPT !.points[choice.player] = @ + 1]
              IN UNION {IF Thrown(o) THEN {o}
                        ELSE IF o.ret = "false"
                             THEN Returning(setState(o.g, "DEALING", FALSE, FALSE), "success")
                             ELSE {Out(o.g, "success")} : o \in checkWinner(g1)}

\* Game#playByCardIndex
playByCardIndex(g, player, index) ==
    IF g.state # "PLAYING" THEN {Out(g, "failure")}
    ELSE IF isTsar(g, player) THEN {Out(g, "failure")}
    ELSE IF g.blackCard = NULL THEN {Out(g, "throw")}
    ELSE IF Len(g.played[player]) >= getFillCount(g.blackCard) THEN {Out(g, "failure")}
    ELSE IF Len(g.hand[player]) <= index \/ ~IsWhiteCard(At(g.hand[player], index))
         THEN {Out(g, "failure")}
    ELSE LET g1 == [g EXCEPT !.played[player] = Append(@, index)]
         IN IF donePlaying(g1) = "true"
            THEN Returning(Bind(setState(g1, "INBETWEENTURN", FALSE, FALSE),
                                LAMBDA g2 : setState(g2, "TSARTURN", FALSE, FALSE)), "success")
            ELSE {Out(g1, "success")}

\* Game#play: a card object is identified by player.cards.indexOf(card), its
\* position in the hand (cards are cloned on draw, so the position is unique),
\* -1 for a card that is not in the hand
play(g, player, cardIndexOf) == playByCardIndex(g, player, cardIndexOf)

\* start clearing the scores of the members before it deals
start_ResetsPoints(g) ==
    IF g.state # "WAITING" THEN {Out(g, "failure")}
    ELSE Returning(setState([g EXCEPT !.points = [p \in Pool |-> 0]],
                            "DEALING", FALSE, FALSE), "success")

\* start dealing from any state, by force
start_Forced(g) == Returning(setState(g, "DEALING", TRUE, TRUE), "success")

\* Game#start
start(g) ==
    IF g.state # "WAITING" THEN {Out(g, "failure")}
    ELSE Returning(setState(g, "DEALING", FALSE, FALSE), "success")

\* addPlayer refusing only above the limit instead of at it
addPlayer_OverLimit(g, player) ==
    IF g.players = NullPlayers THEN {Out(g, "throw")}
    ELSE IF Len(g.players) > g.settings.gamePlayerCount THEN {Out(g, "failure")}
    ELSE LET g1 == [g EXCEPT !.players = Append(@, player)]
             joined(g2) == IF g2.state = "EMPTY" THEN setState(g2, "WAITING", FALSE, FALSE)
                           ELSE {Out(g2, "void")}
             filled(g3) == IF g3.state # "WAITING" /\ g3.state # "EMPTY"
                           THEN IF g3.players = NullPlayers THEN {Out(g3, "throw")}
                                ELSE {Out(g4, "void") :
                                        g4 \in fillPlayersCards(g3, g3.players[Len(g3.players)])}
                           ELSE {Out(g3, "void")}
         IN Returning(Bind(Bind(findHost(g1), joined), filled), "success")

\* Game#addPlayer
addPlayer(g, player) ==
    IF g.players = NullPlayers THEN {Out(g, "throw")}
    ELSE IF Len(g.players) >= g.settings.gamePlayerCount THEN {Out(g, "failure")}
    ELSE LET g1 == [g EXCEPT !.players = Append(@, player)]
             joined(g2) == IF g2.state = "EMPTY" THEN setState(g2, "WAITING", FALSE, FALSE)
                           ELSE {Out(g2, "void")}
             filled(g3) == IF g3.state # "WAITING" /\ g3.state # "EMPTY"
                           THEN IF g3.players = NullPlayers THEN {Out(g3, "throw")}
                                ELSE {Out(g4, "void") :
                                        g4 \in fillPlayersCards(g3, g3.players[Len(g3.players)])}
                           ELSE {Out(g3, "void")}
         IN Returning(Bind(Bind(findHost(g1), joined), filled), "success")

\* removePlayerByIndex without the return to WAITING of a round in play
removePlayerByIndex_KeepsPlaying(g, index) ==
    IF index # -1
    THEN IF g.players = NullPlayers THEN {Out(g, "throw")}
         ELSE IF index < Len(g.players)
         THEN LET player == At(g.players, index)
                  g1     == [g EXCEPT !.players = Splice1(@, index)]
                  rehost == IF g1.host = player THEN findHost([g1 EXCEPT !.host = NULL])
                            ELSE {Out(g1, "void")}
              IN Returning(rehost, "success")
         ELSE {Out(g, "failure")}
    ELSE {Out(g, "failure")}

\* Game#removePlayerByIndex
removePlayerByIndex(g, index) ==
    IF index # -1
    THEN IF g.players = NullPlayers THEN {Out(g, "throw")}
         ELSE IF index < Len(g.players)
         THEN LET player == At(g.players, index)
                  g1     == [g EXCEPT !.players = Splice1(@, index)]
                  rehost == IF g1.host = player THEN findHost([g1 EXCEPT !.host = NULL])
                            ELSE {Out(g1, "void")}
                  wait(g2) == IF g2.state = "PLAYING" THEN setState(g2, "WAITING", FALSE, FALSE)
                              ELSE {Out(g2, "void")}
              IN Returning(Bind(rehost, wait), "success")
         ELSE {Out(g, "failure")}
    ELSE {Out(g, "failure")}

\* Game#removePlayer
removePlayer(g, player) ==
    IF g.players = NullPlayers THEN {Out(g, "throw")}
    ELSE removePlayerByIndex(g, IndexOf(g.players, player))

\* Game.create without its setState('WAITING') call
create_NoWait(hostPlayer) ==
    Returning(addPlayer(NewGame, hostPlayer), "game")

\* Game.create: new Game(), addPlayer(host), setState('WAITING')
create(hostPlayer) ==
    Returning(Bind(addPlayer(NewGame, hostPlayer),
                   LAMBDA g : setState(g, "WAITING", FALSE, FALSE)), "game")

\* CardCollection#merge on game.cards; a collection is identified by its name
merge(g, col) ==
    IF g.cards = NULL THEN {Out(g, "throw")}
    ELSE IF col.name \in Range(g.cards.from) THEN {Out(g, "false")}
    ELSE {Out([g EXCEPT !.cards = [white |-> @.white \o col.white,
                                   black |-> @.black \o col.black,
                                   from  |-> Append(@.from, col.name)]], "true")}

-----------------------------------------------------------------------------
(* CardCollection objects *)

\* The callers' collections are the objects 1..NumCols.  A card of a
\* collection is an object too: ref tells two cards of equal text apart,
\* as includes, indexOf and === do.
ColIds == 1..NumCols

\* CardCollection.create(data) with the data of Col1, for the c-th time
CreatedCollection(c) ==
    [white |-> [k \in 1..Len(Col1.white) |-> [text |-> Col1.white[k].text, ref |-> <<c, k>>]],
     black |-> [k \in 1..Len(Col1.black) |-> [text |-> Col1.black[k].text, ref |-> <<c, k>>]],
     from  |-> <<>>]

CreatedCols == [c \in ColIds |-> CreatedCollection(c)]

\* CardCollection#isFrom
isFrom(cs, this, col) == col \in Range(cs[this].from)

\* merge without the look into from
mergeInto_Again(cs, this, col) ==
    [cs  |-> [cs EXCEPT ![this] = [white |-> @.white \o cs[col].white,
                                   black |-> @.black \o cs[col].black,
                                   from  |-> Append(@.from, col)]],
     ret |-> "true"]

\* cs[this].merge(cs[col]) on the collections cs: the collections after the
\* call and the returned boolean
mergeInto(cs, this, col) ==
    IF col \in Range(cs[this].from) THEN [cs |-> cs, ret |-> "false"]
    ELSE [cs  |-> [cs EXCEPT ![this] = [white |-> @.white \o cs[col].white,
                                        black |-> @.black \o cs[col].black,
                                        from  |-> Append(@.from, col)]],
          ret |-> "true"]

\* found.forEach(card => arr.splice(arr.indexOf(card), 1))
RECURSIVE spliceEach(_, _)
spliceEach(arr, found) ==
    IF found = <<>> THEN arr
    ELSE spliceEach(Splice1(arr, IndexOf(arr, Head(found))), Tail(found))

\* cs[this].unmerge(cs[col], force)
unmerge(cs, this, col, force) ==
    IF ~isFrom(cs, this, col) /\ force = FALSE THEN [cs |-> cs, ret |-> "false"]
    ELSE LET whiteFound == SelectSeq(cs[col].white, LAMBDA card : card \in Range(cs[this].white))
             blackFound == SelectSeq(cs[col].black, LAMBDA card : card \in Range(cs[this].black))
         IN [cs  |-> [cs EXCEPT ![this] = [white |-> spliceEach(@.white, whiteFound),
                                           black |-> spliceEach(@.black, blackFound),
                                           from  |-> @.from]],
             ret |-> "true"]

-----------------------------------------------------------------------------
(* State machine *)

\* the Game object held in the variables
G == [state |-> state, host |-> host, tsar |-> tsar, players |-> players,
      cards |-> cards, blackCard |-> blackCard, settings |-> settings,
      hand |-> hand, played |-> played, points |-> points, path |-> <<>>,
      events |-> <<>>]

\* the members of game g
Members(g) == IF g.players = NullPlayers THEN {} ELSE Range(g.players)

\* A Player joins once, as a new object, and only members play: the fields of
\* a Player that is not a member are never read again, and the model keeps
\* them at the values the Player constructor gives
Tracked(g, field, p) ==
    IF p \in Members(g) THEN g[field][p] ELSE NewGame[field][p]

\* the state named by the last "state:entering" notification, given the
\* notifications of a call and the state named before it
Entered(events, before) ==
    LET entering == SelectSeq(events, LAMBDA e : e.kind = "state:entering")
    IN IF entering = <<>> THEN before ELSE entering[Len(entering)].of

\* The call `op` returns with outcome o.  last records the last call that did
\* not simply refuse: the method that ran, what it returned, the state it
\* was called in and the state changes it made.  A refused call leaves
\* every variable as it is.
Apply(o, op) ==
    /\ state' = o.g.state
    /\ host' = o.g.host
    /\ tsar' = o.g.tsar
    /\ players' = o.g.players
    /\ cards' = o.g.cards
    /\ blackCard' = o.g.blackCard
    /\ settings' = o.g.settings
    /\ hand' = [p \in Pool |-> Tracked(o.g, "hand", p)]
    /\ played' = [p \in Pool |-> Tracked(o.g, "played", p)]
    /\ points' = [p \in Pool |-> Tracked(o.g, "points", p)]
    /\ last' = IF o.ret \in {"failure", "false"} /\ o.g = G THEN last
               ELSE [op |-> op, ret |-> o.ret, from |-> state, path |-> o.g.path,
                     events |-> o.g.events, entered |-> Entered(o.g.events, last.entered)]
    /\ UNCHANGED <<cols, shown, fsm>>

\* indices passed by callers: into players, into a hand, into the choices
PlayerIndices == -2..GamePlayerCount
CardIndices == -1..PlayerCards
ChoiceIndices == -1..(GamePlayerCount - 1)

\* the Player objects constructed so far
Callers == {Player(n) : n \in 1..created}

\* new Game(); no Player has been constructed
InitGame ==
    /\ state = NewGame.state
    /\ host = NewGame.host
    /\ tsar = NewGame.tsar
    /\ players = NewGame.players
    /\ cards = NewGame.cards
    /\ blackCard = NewGame.blackCard
    /\ settings = NewGame.settings
    /\ hand = NewGame.hand
    /\ played = NewGame.played
    /\ points = NewGame.points
    /\ created = 0
    /\ direct = 0
    /\ last = [op |-> "new", ret |-> "game", from |-> "INIT", path |-> <<>>,
               events |-> <<[kind |-> "state:entering", of |-> "INIT", other |-> NULL]>>,
               entered |-> "INIT"]

\* the callers have created their collections and displayed no card yet
Init ==
    /\ InitGame
    /\ cols = CreatedCols
    /\ shown = NULL
    /\ fsm = NULL

\* Game.create(new Player(1)) instead of new Game()
Create ==
    /\ last.op = "new"
    /\ created' = 1
    /\ UNCHANGED direct
    /\ \E o \in create(Player(1)) : Apply(o, "create")

\* game.cards.merge(col)
Merge(col) ==
    /\ cards # NULL /\ col.name \notin Range(cards.from)
    /\ UNCHANGED <<created, direct>>
    /\ \E o \in merge(G, col) : Apply(o, "merge")

\* game.addPlayer(new Player(created + 1)): a Player joins once, as a new object
AddPlayer ==
    /\ created < NumPlayers
    /\ UNCHANGED direct
    /\ \E o \in addPlayer(G, Player(created + 1)) :
        /\ Apply(o, "addPlayer")
        /\ created' = IF o.ret = "success" THEN created + 1 ELSE created

\* game.removePlayer(p) runs removePlayerByIndex(players.indexOf(p))
RemovePlayer(p) ==
    /\ UNCHANGED <<created, direct>>
    /\ \E o \in removePlayer(G, p) : Apply(o, "removePlayerByIndex")

RemovePlayerByIndex(i) ==
    /\ UNCHANGED <<created, direct>>
    /\ \E o \in removePlayerByIndex(G, i) : Apply(o, "removePlayerByIndex")

Start ==
    /\ UNCHANGED <<created, direct>>
    /\ \E o \in start(G) : Apply(o, "start")

PlayByCardIndex(p, i) ==
    /\ p \in Members(G)
    /\ UNCHANGED <<created, direct>>
    /\ \E o \in playByCardIndex(G, p, i) : Apply(o, "playByCardIndex")

\* game.play(p, card) runs playByCardIndex(p, p.cards.indexOf(card))
Play(p, i) ==
    /\ p \in Members(G)
    /\ i >= -1 /\ i < Len(hand[p])
    /\ UNCHANGED <<created, direct>>
    /\ \E o \in play(G, p, i) : Apply(o, "playByCardIndex")

ChooseTurnWinnerByIndex(p, i) ==
    /\ UNCHANGED <<created, direct>>
    /\ \E o \in chooseTurnWinnerByIndex(G, p, i) : Apply(o, "chooseTurnWinnerByIndex")

Kill ==
    /\ UNCHANGED <<created, direct>>
    /\ \E o \in kill(G) : Apply(o, "kill")

\* a direct call of game.setState
SetState(name, forceFrom, forceTo) ==
    /\ direct < MaxDirect
    /\ UNCHANGED created
    /\ \E o \in setState(G, name, forceFrom, forceTo) :
        /\ Apply(o, "setState")
        /\ direct' = IF o.ret = "false" /\ o.g = G THEN direct ELSE direct + 1

\* the operations of Game
GameOp ==
    \/ Create
    \/ \E col \in Collections : Merge(col)
    \/ AddPlayer
    \/ \E p \in Callers : RemovePlayer(p)
    \/ \E i \in PlayerIndices : RemovePlayerByIndex(i)
    \/ Start
    \/ \E p \in Callers, i \in CardIndices : PlayByCardIndex(p, i)
    \/ \E p \in Callers, i \in CardIndices : Play(p, i)
    \/ \E p \in Callers, i \in ChoiceIndices : ChooseTurnWinnerByIndex(p, i)
    \/ Kill

Next == GameOp

Spec == Init /\ [][Next]_vars

\* names passed to setState by callers: the registered names and a typo
NameInputs == StateNames \cup {"PLAYNG"}

\* Once a direct setState call has left ENDGAME the scores can grow without
\* end: they are capped.  Only the Players a round needs are constructed.
MaxPoints == WinPoints + 1
BoundedFSM == created <= MinPlayers /\ \A p \in Pool : points[p] <= MaxPoints

\* game.setState(name, forceFrom, forceTo) with any arguments
DirectSetState ==
    \E name \in NameInputs, forceFrom \in BOOLEAN, forceTo \in BOOLEAN :
        SetState(name, forceFrom, forceTo)

NextFSM ==
    \/ GameOp /\ BoundedFSM'
    \/ DirectSetState /\ BoundedFSM'

SpecFSM == Init /\ [][NextFSM]_vars

\* number of successful merge calls made so far
RECURSIVE Merges(_)
Merges(c) == IF c = 0 THEN 0 ELSE Len(cols[c].from) + Merges(c - 1)

\* cols[this].merge(cols[col]); a merge already made is refused, a new one
\* is made while the callers have merges left
MergeCollections(this, col) ==
    /\ isFrom(cols, this, col) \/ Merges(NumCols) < MaxMerges
    /\ cols' = mergeInto(cols, this, col).cs
    /\ last' = [op |-> "merge", ret |-> mergeInto(cols, this, col).ret,
                from |-> state, path |-> <<>>, events |-> <<>>, entered |-> last.entered]
    /\ UNCHANGED <<gameVars, shown, fsm>>

\* cols[this].unmerge(cols[col], force)
Unmerge(this, col, force) ==
    /\ cols' = unmerge(cols, this, col, force).cs
    /\ last' = [op |-> "unmerge", ret |-> unmerge(cols, this, col, force).ret,
                from |-> state, path |-> <<>>, events |-> <<>>, entered |-> last.entered]
    /\ UNCHANGED <<gameVars, shown, fsm>>

\* the operations of CardCollection
NextCards ==
    \/ \E this \in ColIds, col \in ColIds : MergeCollections(this, col)
    \/ \E this \in ColIds, col \in ColIds, force \in BOOLEAN : Unmerge(this, col, force)

SpecCards == Init /\ [][NextCards]_vars

\* token lists of a BlackCard: literals and the slots 0 and 1
Tokens == {Str("a"), Str("b"), Num(0), Num(1)}
TokenLists == UNION {[1..n -> Tokens] : n \in 0..MaxTokens}

\* arguments of getDisplay: white cards, and null in a card's place
Args == {WhiteCard("x"), WhiteCard("y"), NULL}
ArgLists == UNION {[1..n -> Args] : n \in 0..MaxArgs}

\* a BlackCard and the arguments one caller passes to its getDisplay
InitCard ==
    /\ InitGame
    /\ cols = CreatedCols
    /\ fsm = NULL
    /\ shown \in {[card |-> BlackCard(toks), args |-> args, count |-> NULL, display |-> NULL] :
                    toks \in TokenLists, args \in ArgLists}

\* shown.card.getFillCount()
GetFillCount ==
    /\ shown.count = NULL
    /\ shown' = [shown EXCEPT !.count = [n |-> getFillCount(shown.card)]]
    /\ UNCHANGED <<gameVars, last, cols, fsm>>

\* shown.card.getDisplay(true, ...shown.args)
GetDisplay ==
    /\ shown.display = NULL
    /\ shown' = [shown EXCEPT !.display = getDisplayFill(shown.card.text, shown.args)]
    /\ UNCHANGED <<gameVars, last, cols, fsm>>

NextCard ==
    \/ GetFillCount
    \/ GetDisplay

SpecCard == InitCard /\ [][NextCard]_vars

\* names passed to setState on the FSM: the registered names and another
FsmNames == RegisteredStates \cup {"C"}

\* new FSM(), addState("A"), addState("B") and the callers' hooks on them
InitHooks ==
    /\ InitGame
    /\ cols = CreatedCols
    /\ shown = NULL
    /\ fsm \in {[state |-> "INIT", hooks |-> Registry(fromA, unsetA, toB, setB), log |-> <<>>,
                  call |-> [name |-> "INIT", forceFrom |-> FALSE, forceTo |-> FALSE,
                            from |-> "INIT", ret |-> "true"]] :
                    fromA \in GuardLists, toB \in GuardLists,
                    unsetA \in EffectResults, setB \in EffectResults}

\* fsm.setState(name, forceFrom, forceTo); call records the arguments, the
\* state the call was made in and what it returned
FsmSetState(name, forceFrom, forceTo) ==
    /\ fsm' = [fsmSetState(fsm, name, forceFrom, forceTo).f EXCEPT
                  !.call = [name |-> name, forceFrom |-> forceFrom, forceTo |-> forceTo,
                            from |-> fsm.state,
                            ret |-> fsmSetState(fsm, name, forceFrom, forceTo).ret]]
    /\ UNCHANGED <<gameVars, last, cols, shown>>

NextHooks ==
    \E name \in FsmNames, forceFrom \in BOOLEAN, forceTo \in BOOLEAN :
        FsmSetState(name, forceFrom, forceTo)

SpecHooks == InitHooks /\ [][NextHooks]_vars

\* The game of CAH2_test.js: players join and leave and the deck is merged
\* before the game starts, nobody joins or leaves afterwards
Gathering == state \in {"INIT", "EMPTY", "WAITING"}
Started == state \in {"DEALING", "PLAYING", "INBETWEENTURN", "TSARTURN", "ENDGAME"}

Join == Gathering /\ AddPlayer

Leave(p) == Gathering /\ p \in Members(G) /\ RemovePlayer(p)

\* game.start() once enough players have joined and the deck has cards
StartGame ==
    /\ Len(players) >= MinPlayers
    /\ cards.white # <<>> /\ cards.black # <<>>
    /\ Start

\* playTurn: a member other than the tsar plays a card of their hand
Submit(p) ==
    /\ p \in Members(G) /\ p # tsar
    /\ \E i \in 0..(Len(hand[p]) - 1) : PlayByCardIndex(p, i)

\* playTurn: the tsar chooses one of the choices
Choose ==
    /\ tsar \in Members(G)
    /\ \E i \in 0..(Len(players) - 2) : ChooseTurnWinnerByIndex(tsar, i)

NextPlay ==
    \/ Create
    \/ \E col \in Collections : Merge(col)
    \/ Join
    \/ \E p \in Pool : Leave(p)
    \/ StartGame
    \/ \E p \in Pool : Submit(p)
    \/ Choose

\* every player who can play a card does, and so does a tsar who can choose
FairPlay ==
    /\ \A p \in Pool : WF_vars(Submit(p))
    /\ WF_vars(Choose)

SpecPlay == Init /\ [][NextPlay]_vars /\ FairPlay

-----------------------------------------------------------------------------
(* Properties *)

\* the members other than the tsar, in players order
NonTsar == SelectSeq(players, LAMBDA q : q # tsar)

\* every member of g other than the tsar has submitted as many indices as the
\* black card has distinct slots
AllSubmitted(g) ==
    \A q \in Range(g.players) \ {g.tsar} : Len(g.played[q]) = getFillCount(g.blackCard)

\* C1: after construction and after any sequence of Game operations and
\* setState calls the current state is one of the nine registered names
C1_StateRegistered == state \in StateNames

\* a forced direct setState call has changed the state in the middle of a round
C1_Witness ==
    last.op = "setState" /\ last.ret = "true" /\ last.from = "PLAYING" /\ state # "PLAYING"

\* C2: start() called in WAITING, with any number of players, reports
\* success and returns with the state PLAYING
C2_StartReachesPlaying ==
    state = "WAITING" => \A o \in start(G) : o.ret = "success" /\ o.g.state = "PLAYING"

\* C3: in PLAYING, donePlaying() is true exactly when every member other than
\* the tsar has getFillCount() entries in played
C3_DonePlayingIff ==
    state = "PLAYING" /\ blackCard # NULL =>
        (donePlaying(G) = "true" <=> AllSubmitted(G))

\* C4: a successful playByCardIndex in PLAYING returns in TSARTURN when it
\* leaves every member other than the tsar with getFillCount() played indices,
\* and in PLAYING otherwise
C4_LastSubmissionReachesTsarTurn ==
    state = "PLAYING" /\ blackCard # NULL =>
        \A p \in Range(players), i \in CardIndices :
            \A o \in playByCardIndex(G, p, i) :
                o.ret = "success" =>
                    o.g.state = (IF AllSubmitted(o.g) THEN "TSARTURN" ELSE "PLAYING")

\* playByCardIndex(p, i) is a call that is to be refused
C5_Refused(p, i) ==
    \/ state # "PLAYING"
    \/ p = tsar
    \/ blackCard # NULL /\ Len(played[p]) >= getFillCount(blackCard)
    \/ i < 0 \/ i >= Len(hand[p]) \/ ~IsWhiteCard(At(hand[p], i))

\* C5: playByCardIndex returns a failure and changes nothing when the state
\* is not PLAYING, the player is the tsar, the player has getFillCount() played
\* indices or the index addresses no card of the hand; no member has more than
\* getFillCount() played indices
C5_PlayRefused ==
    state # "KILLED" =>
        /\ \A p \in Range(players), i \in CardIndices :
                C5_Refused(p, i) =>
                    \A o \in playByCardIndex(G, p, i) : o.ret = "failure" /\ o.g = G
        /\ state = "PLAYING" /\ blackCard # NULL =>
                \A p \in Range(players) : Len(played[p]) <= getFillCount(blackCard)

\* chooseTurnWinnerByIndex(t, i) is a call that may succeed
C6_Allowed(t, i) ==
    t = tsar /\ state = "TSARTURN" /\ 0 <= i /\ i < Len(NonTsar)

\* C6: chooseTurnWinnerByIndex succeeds only for the tsar, in TSARTURN, with
\* an index into the non-tsar players; every other call returns a failure and
\* leaves the points and the state as they are
C6_ChooseRefused ==
    \A t \in Callers, i \in ChoiceIndices :
        ~C6_Allowed(t, i) =>
            \A o \in chooseTurnWinnerByIndex(G, t, i) :
                o.ret = "failure" /\ o.g.points = points /\ o.g.state = state

\* C7: a successful chooseTurnWinnerByIndex(tsar, i) adds exactly 1 to the
\* points of the i-th member other than the tsar in players order and leaves
\* the points of every other player as they are
C7_ChoiceScoresOne ==
    \A t \in Callers, i \in ChoiceIndices :
        \A o \in chooseTurnWinnerByIndex(G, t, i) :
            o.ret = "success" =>
                /\ 0 <= i /\ i < Len(NonTsar)
                /\ o.g.points = [points EXCEPT ![NonTsar[i + 1]] = @ + 1]

\* the tsar has chosen and a player has scored
C7_Witness ==
    /\ last.op = "chooseTurnWinnerByIndex" /\ last.ret = "success"
    /\ \E q \in Range(players) : q # tsar /\ points[q] = 1

\* C8: a successful chooseTurnWinnerByIndex returns in ENDGAME when a member
\* has winPoints points and in PLAYING, with a new round dealt, otherwise
C8_ChoiceEndsOrDeals ==
    \A t \in Callers, i \in ChoiceIndices :
        \A o \in chooseTurnWinnerByIndex(G, t, i) :
            o.ret = "success" =>
                o.g.state = (IF \E q \in Range(o.g.players) :
                                    o.g.points[q] = o.g.settings.winPoints
                             THEN "ENDGAME" ELSE "PLAYING")

C10_KilledForever == [][state = "KILLED" => state' = "KILLED"]_vars

\* a forced direct setState call on a killed game raised
C10_Witness ==
    state = "KILLED" /\ last.op = "setState" /\ last.ret = "throw" /\ last.from = "KILLED"

\* C11: in KILLED every setState call to a registered state raises, whatever
\* the two force flags
C11_LeavingKilledRaises ==
    state = "KILLED" =>
        \A name \in StateNames, forceFrom \in BOOLEAN, forceTo \in BOOLEAN :
            \A o \in setState(G, name, forceFrom, forceTo) : o.ret = "throw"

\* C11 as amended: in KILLED a setState call to a registered state raises when
\* forceFrom is set, and otherwise returns false and changes nothing
C11_ForcedLeavingKilledRaises ==
    state = "KILLED" =>
        \A name \in StateNames, forceFrom \in BOOLEAN, forceTo \in BOOLEAN :
            \A o \in setState(G, name, forceFrom, forceTo) :
                IF forceFrom THEN o.ret = "throw" ELSE o.ret = "false" /\ o.g = G

\* the game was killed and a direct setState call on it raised
C11_Witness ==
    /\ state = "KILLED" /\ players = NullPlayers
    /\ last.op = "setState" /\ last.ret = "throw" /\ direct = 1

\* C12: in DEALING, PLAYING, INBETWEENTURN and TSARTURN the tsar is a member
\* of players
C12_TsarIsMember ==
    state \in {"DEALING", "PLAYING", "INBETWEENTURN", "TSARTURN"} =>
        tsar \in Members(G)

\* C13: outside KILLED every index in a member's played list addresses a
\* position of that member's hand
C13_PlayedWithinHand ==
    state # "KILLED" =>
        \A p \in Members(G) : \A k \in 1..Len(played[p]) :
            0 <= played[p][k] /\ played[p][k] < Len(hand[p])

\* the members after a step whose points the step has changed
C14_Changed == {p \in Members(G)' : points'[p] # points[p]}

\* C14: no step lowers a member's points; the points of the members change
\* only in a successful chooseTurnWinnerByIndex, which adds 1 to exactly one
C14_PointsMonotone ==
    [][/\ \A p \in Members(G)' : points'[p] >= points[p]
       /\ C14_Changed # {} =>
            last'.op = "chooseTurnWinnerByIndex" /\ last'.ret = "success"
       /\ last' # last /\ last'.op = "chooseTurnWinnerByIndex" /\ last'.ret = "success" =>
            /\ Cardinality(C14_Changed) = 1
            /\ \A p \in C14_Changed : points'[p] = points[p] + 1]_vars

\* a member has scored in one round and again in a later one
C14_Witness ==
    /\ last.op = "chooseTurnWinnerByIndex" /\ last.ret = "success"
    /\ \E p \in Members(G) : points[p] = 2

InfoResults == {"success", "failure"}

\* C16: outside KILLED each of addPlayer, removePlayer, removePlayerByIndex,
\* start, playByCardIndex and chooseTurnWinnerByIndex returns a result and
\* does not raise, whatever the player and the index
C16_NeverRaises ==
    state # "KILLED" =>
        /\ created < NumPlayers =>
                \A o \in addPlayer(G, Player(created + 1)) : o.ret \in InfoResults
        /\ \A p \in Callers : \A o \in removePlayer(G, p) : o.ret \in InfoResults
        /\ \A i \in PlayerIndices :
                \A o \in removePlayerByIndex(G, i) : o.ret \in InfoResults
        /\ \A o \in start(G) : o.ret \in InfoResults
        /\ \A p \in Members(G), i \in CardIndices :
                \A o \in playByCardIndex(G, p, i) : o.ret \in InfoResults
        /\ \A p \in Callers, i \in ChoiceIndices :
                \A o \in chooseTurnWinnerByIndex(G, p, i) : o.ret \in InfoResults

\* C17: removePlayerByIndex with an index below 0 or not below players.length,
\* and removePlayer of a Player who is no member, return a failure and leave
\* players, host and state as they are
C17_BadIndexRefused ==
    state # "KILLED" =>
        /\ \A i \in PlayerIndices :
                i < 0 \/ i >= Len(players) =>
                    \A o \in removePlayerByIndex(G, i) :
                        /\ o.ret = "failure"
                        /\ o.g.players = players /\ o.g.host = host /\ o.g.state = state
        /\ \A p \in Callers \ Members(G) :
                \A o \in removePlayer(G, p) :
                    /\ o.ret = "failure"
                    /\ o.g.players = players /\ o.g.host = host /\ o.g.state = state

\* game g has players left and its host is one of them
C18_HostIsMember(g) ==
    g.players # NullPlayers /\ Len(g.players) >= 1 => g.host \in Range(g.players)

\* C18: a successful addPlayer or removePlayerByIndex that leaves a player
\* leaves the host among players, and the first of them is the host when the
\* host was the one removed
C18_HostReelected ==
    state # "KILLED" =>
        /\ created < NumPlayers =>
                \A o \in addPlayer(G, Player(created + 1)) :
                    o.ret = "success" => C18_HostIsMember(o.g)
        /\ \A i \in PlayerIndices :
                \A o \in removePlayerByIndex(G, i) :
                    o.ret = "success" /\ o.g.players # NullPlayers /\ Len(o.g.players) >= 1 =>
                        /\ C18_HostIsMember(o.g)
                        /\ host \notin Range(o.g.players) => o.g.host = o.g.players[1]

\* C19: addPlayer returns a failure and leaves players, host and state as
\* they are when players.length >= settings.gamePlayerCount, and
\* players.length never exceeds gamePlayerCount
C19_PlayerLimit ==
    state # "KILLED" =>
        /\ Len(players) <= settings.gamePlayerCount
        /\ created < NumPlayers /\ Len(players) >= settings.gamePlayerCount =>
                \A o \in addPlayer(G, Player(created + 1)) :
                    /\ o.ret = "failure"
                    /\ o.g.players = players /\ o.g.host = host /\ o.g.state = state

\* the game is full, a further Player asks to join and is refused
C19_Witness ==
    /\ state # "KILLED" /\ Len(players) = GamePlayerCount /\ created < NumPlayers
    /\ \A o \in addPlayer(G, Player(created + 1)) : o.ret = "failure"

\* C20: on a Game made by the constructor alone the first addPlayer succeeds,
\* makes that player the host and returns with the state WAITING
C20_FirstJoinWaits ==
    state = "INIT" /\ players = <<>> /\ last.op = "new" =>
        \A o \in addPlayer(G, Player(created + 1)) :
            o.ret = "success" /\ o.g.host = Player(created + 1) /\ o.g.state = "WAITING"

\* C21: Game.create(host) returns a game in WAITING whose players are exactly
\* [host], whose host is that player, and in which that player's hand is empty
C21_CreateWaits ==
    last.op = "create" =>
        /\ last.ret = "game"
        /\ state = "WAITING"
        /\ players = <<Player(1)>>
        /\ host = Player(1)
        /\ hand[Player(1)] = <<>>

\* Game.create has returned
C21_Witness == last.op = "create" /\ state = "WAITING" /\ Len(players) = 1

\* C22: whenever removePlayer or removePlayerByIndex removes the last
\* remaining player, in any state, the game is in KILLED when the call returns
C22_LastRemovalKills ==
    [][(/\ players # NullPlayers
        /\ Len(players) = 1
        /\ last'.op = "removePlayerByIndex"
        /\ last'.ret = "success") => state' = "KILLED"]_vars

\* C23: kill() called in any state other than KILLED returns with the state
\* KILLED and host, tsar, players, cards, blackCard and settings all null,
\* whatever the players and whatever the from guard of the current state says
C23_KillKills ==
    state # "KILLED" =>
        \A o \in kill(G) :
            /\ o.ret = "true"
            /\ o.g.state = "KILLED"
            /\ o.g.host = NULL
            /\ o.g.tsar = NULL
            /\ o.g.players = NullPlayers
            /\ o.g.cards = NULL
            /\ o.g.blackCard = NULL
            /\ o.g.settings = NULL

\* kill() has returned from a round in progress
C23_Witness ==
    /\ last.op = "kill"
    /\ last.from \in {"PLAYING", "TSARTURN", "ENDGAME"}
    /\ state = "KILLED"
    /\ players = NullPlayers

C25_LateJoinFrame ==
    (/\ state \in {"PLAYING", "INBETWEENTURN", "TSARTURN"}
     /\ cards.white # <<>>) =>
        \A p \in Pool \ Members(G) : \A o \in addPlayer(G, p) :
            o.ret = "success" =>
                /\ o.g.state = state
                /\ o.g.tsar = tsar
                /\ o.g.blackCard = blackCard
                /\ o.g.players = Append(players, p)
                /\ Len(o.g.hand[p]) = settings.playerCards
                /\ \A i \in 1..Len(o.g.hand[p]) : IsWhiteCard(o.g.hand[p][i])

\* a player has joined a round in progress
C25_Witness ==
    /\ last.op = "addPlayer"
    /\ last.ret = "success"
    /\ last.from \in {"PLAYING", "INBETWEENTURN", "TSARTURN"}
    /\ state = last.from
    /\ cards.white # <<>>
    /\ Len(hand[players[Len(players)]]) = settings.playerCards

\* C26: merge(other) on a collection that already has other in its
\* provenance returns false and leaves white, black and the provenance
\* unchanged
C26_MergeTwiceRefused ==
    \A this \in ColIds, col \in ColIds :
        isFrom(cols, this, col) =>
            /\ mergeInto(cols, this, col).ret = "false"
            /\ mergeInto(cols, this, col).cs[this].white = cols[this].white
            /\ mergeInto(cols, this, col).cs[this].black = cols[this].black
            /\ mergeInto(cols, this, col).cs[this].from = cols[this].from

\* a merge has been refused
C26_Witness ==
    /\ last.op = "merge"
    /\ last.ret = "false"
    /\ \E this \in ColIds : cols[this].from # <<>>

\* C27: after merge(other) succeeds, unmerge(other) returns true and restores
\* white and black to exactly what they were before the merge; unmerge(other)
\* without force returns false and changes nothing when other is not in the
\* provenance
C27_UnmergeRestores ==
    \A this \in ColIds, col \in ColIds :
        /\ mergeInto(cols, this, col).ret = "true" =>
              LET u == unmerge(mergeInto(cols, this, col).cs, this, col, FALSE)
              IN /\ u.ret = "true"
                 /\ u.cs[this].white = cols[this].white
                 /\ u.cs[this].black = cols[this].black
        /\ ~isFrom(cols, this, col) =>
              unmerge(cols, this, col, FALSE) = [cs |-> cols, ret |-> "false"]

\* the slot markers of a token list
Slots(toks) == {toks[i].num : i \in {j \in 1..Len(toks) : IsNumber(toks[j])}}

\* the token list with each slot marker i replaced by the text of args[i]
RECURSIVE Filled(_, _)
Filled(toks, args) ==
    IF toks = <<>> THEN ""
    ELSE (IF IsNumber(Head(toks)) THEN args[Head(toks).num + 1].text
          ELSE Head(toks).str) \o Filled(Tail(toks), args)

\* C28: getFillCount() is the number of distinct integer slot markers of the
\* card; getDisplay in fill mode replaces each slot marker i by the text of
\* the card at 0-based position i of the arguments, and raises an error when
\* fewer than i + 1 cards are supplied or the value at position i is not a
\* white card
C28_FillCountAndDisplay ==
    LET toks == shown.card.text
        args == shown.args
        Bad(i) == i + 1 > Len(args) \/ ~IsWhiteCard(At(args, i))
    IN /\ shown.count # NULL => shown.count.n = Cardinality(Slots(toks))
       /\ shown.display # NULL =>
             IF \E i \in Slots(toks) : Bad(i)
             THEN "thrown" \in DOMAIN shown.display
             ELSE shown.display = [text |-> Filled(toks, args)]

\* a card with a repeated slot has been counted and displayed
C28_Witness ==
    /\ shown.count # NULL
    /\ shown.display # NULL
    /\ "text" \in DOMAIN shown.display
    /\ Len(SelectSeq(shown.card.text, IsNumber)) > Cardinality(Slots(shown.card.text))

\* C29: across the Game operations every change of state follows the round
\* order: INBETWEENTURN is entered only from PLAYING, TSARTURN only from
\* INBETWEENTURN, ENDGAME only from TSARTURN, DEALING only from WAITING or
\* TSARTURN, and PLAYING only from DEALING
C29_RoundOrder ==
    \A i \in 1..Len(last.path) :
        LET from == last.path[i][1]
            to   == last.path[i][2]
        IN /\ to = "INBETWEENTURN" => from = "PLAYING"
           /\ to = "TSARTURN" => from = "INBETWEENTURN"
           /\ to = "ENDGAME" => from = "TSARTURN"
           /\ to = "DEALING" => from \in {"WAITING", "TSARTURN"}
           /\ to = "PLAYING" => from = "DEALING"

\* a call has walked PLAYING, INBETWEENTURN, TSARTURN, and a game has ended
C29_Witness ==
    \/ last.path = <<<<"PLAYING", "INBETWEENTURN">>, <<"INBETWEENTURN", "TSARTURN">>>>
    \/ last.path = <<<<"TSARTURN", "ENDGAME">>>>

\* in ENDGAME every setState call without forceFrom returns false and changes
\* nothing, and no addPlayer, start, playByCardIndex or
\* chooseTurnWinnerByIndex call changes the state or the points
EndgameRefuses ==
    state = "ENDGAME" =>
        /\ \A name \in NameInputs, forceTo \in BOOLEAN :
              setState(G, name, FALSE, forceTo) = {Out(G, "false")}
        /\ \A o \in start(G) : o.g.state = state /\ o.g.points = points
        /\ \A p \in Pool \ Members(G) : \A o \in addPlayer(G, p) :
              o.g.state = state /\ o.g.points = points
        /\ \A p \in Pool, i \in CardIndices : \A o \in playByCardIndex(G, p, i) :
              o.g.state = state /\ o.g.points = points
        /\ \A p \in Pool, i \in ChoiceIndices : \A o \in chooseTurnWinnerByIndex(G, p, i) :
              o.g.state = state /\ o.g.points = points

\* C30: once the game is in ENDGAME, every non-forced setState call
\* returns false and leaves the state ENDGAME, no addPlayer, start,
\* playByCardIndex or chooseTurnWinnerByIndex call changes the state or any
\* player's points, and the only state that can ever follow ENDGAME is KILLED
C30_EndgameIsSink ==
    /\ []EndgameRefuses
    /\ [][state = "ENDGAME" => state' \in {"ENDGAME", "KILLED"}]_vars

\* C30 as amended: the same, and the only state that can follow ENDGAME
\* otherwise than by a direct setState call with forceFrom is KILLED
C30_EndgameIsSinkUnlessForced ==
    /\ []EndgameRefuses
    /\ [][state = "ENDGAME" =>
            (state' \in {"ENDGAME", "KILLED"} \/ last'.op = "setState")]_vars

\* a player has joined a game that has ended
C30_Witness ==
    /\ state = "ENDGAME"
    /\ last.from = "ENDGAME"
    /\ last.op = "addPlayer"
    /\ last.ret = "success"

\* the last call on the FSM ran a hook of one of the kinds
RanHook(kinds) == \E i \in 1..Len(fsm.log) : fsm.log[i].ev = "hook" /\ fsm.log[i].kind \in kinds

\* C31: a non-forced setState(name) to a registered state returns false,
\* leaves the current state unchanged and runs no unset or set hook exactly
\* when some from hook of the current state or some to hook of the target
\* returns the boolean false; hooks that return no boolean never veto, and
\* states without guards accept every transition
C31_OnlyFalseVetoes ==
    LET c     == fsm.call
        vetos == "false" \in Range(fsm.hooks[c.from].from)
                 \/ "false" \in Range(fsm.hooks[c.name].to)
    IN (fsm.log # <<>> /\ c.name \in RegisteredStates /\ ~c.forceFrom /\ ~c.forceTo) =>
          /\ vetos <=> (c.ret = "false" /\ fsm.state = c.from /\ ~RanHook({"set", "unset"}))
          /\ ~vetos => (c.ret \in {"true", "throw"} /\ RanHook({"unset"}) = (fsm.hooks[c.from].unset # <<>>))

\* a from hook that returned nothing was followed by one that returned false,
\* and the call was refused
C31_Witness ==
    /\ fsm.log # <<>>
    /\ ~fsm.call.forceFrom /\ ~fsm.call.forceTo
    /\ fsm.call.from = "A"
    /\ fsm.call.name = "B"
    /\ fsm.hooks["A"].from = <<"void", "false">>
    /\ fsm.call.ret = "false"

HookCalls(kind) == SelectSeq(fsm.log, LAMBDA e : e.ev = "hook" /\ e.kind = kind)

\* every hook of the kind registered on the state, once, in registration order
AllHooksOnce(kind, of) ==
    [i \in 1..Len(fsm.hooks[of][kind]) |-> Invoked(kind, of, i)]

\* the last call on the FSM evaluated the to guard of its target
ToGuardEvaluated ==
    /\ fsm.call.name \in RegisteredStates
    /\ fsm.call.forceFrom \/ "false" \notin Range(fsm.hooks[fsm.call.from].from)

\* C33: in any setState call, here to a registered state, every from hook
\* registered on the current state is invoked exactly once, in registration
\* order, even after an earlier one returned false; and whenever the to
\* guard is evaluated every to hook of the target is invoked exactly once,
\* in registration order, also when forceFrom is true and the result is
\* ignored
C33_AllHooksRun ==
    (fsm.log # <<>> /\ fsm.call.name \in RegisteredStates) =>
        /\ HookCalls("from") = AllHooksOnce("from", fsm.call.from)
        /\ ToGuardEvaluated => HookCalls("to") = AllHooksOnce("to", fsm.call.name)

\* C33 as amended: the same for the from hooks in any setState call to a
\* registered state without forceFrom; a call with forceFrom, or to a name
\* that is not registered, invokes no from hook
C33_AllHooksRunUnlessForced ==
    fsm.log # <<>> =>
        /\ HookCalls("from") =
              IF fsm.call.name \in RegisteredStates /\ ~fsm.call.forceFrom
              THEN AllHooksOnce("from", fsm.call.from) ELSE <<>>
        /\ HookCalls("to") =
              IF ToGuardEvaluated THEN AllHooksOnce("to", fsm.call.name) ELSE <<>>

\* both from hooks ran although the first returned false, and both to hooks
\* ran in a forced call
C33_Witness ==
    /\ fsm.log # <<>>
    /\ fsm.call.from = "A"
    /\ fsm.call.name = "B"
    /\ \/ /\ ~fsm.call.forceFrom
          /\ fsm.hooks["A"].from = <<"false", "true">>
          /\ HookCalls("from") = AllHooksOnce("from", "A")
       \/ /\ fsm.call.forceFrom
          /\ fsm.hooks["B"].to = <<"false", "true">>
          /\ HookCalls("to") = AllHooksOnce("to", "B")

\* the step is a call made in WAITING or TSARTURN that entered DEALING with
\* white and black cards in the deck, and DEALING's set hook returned
EntersDealing ==
    /\ state \in {"WAITING", "TSARTURN"}
    /\ state' # state
    /\ <<state, "DEALING">> \in Range(last'.path)
    /\ last'.ret # "throw"
    /\ cards.white # <<>> /\ cards.black # <<>>

\* the cards of hand cs at the positions that are not in the list pl
RECURSIVE Unplayed(_, _)
Unplayed(cs, pl) ==
    IF cs = <<>> THEN <<>>
    ELSE LET front == Unplayed(SubSeq(cs, 1, Len(cs) - 1), pl)
         IN IF (Len(cs) - 1) \in Range(pl) THEN front ELSE Append(front, cs[Len(cs)])

\* C34: whenever DEALING is entered from WAITING or TSARTURN with a non-empty
\* deck, after its set hook every player's played list is empty, every hand
\* holds exactly settings.playerCards cards, the cards not played in the
\* previous round kept in their previous relative order, the tsar is a
\* member and blackCard is set
C34_DealingDeals ==
    [][EntersDealing =>
        /\ \A p \in Range(players') :
              /\ played'[p] = <<>>
              /\ Len(hand'[p]) = settings'.playerCards
              /\ \A i \in 1..Len(hand'[p]) : IsWhiteCard(hand'[p][i])
              /\ LET kept == Unplayed(hand[p], played[p])
                 IN Len(kept) <= Len(hand'[p]) /\ SubSeq(hand'[p], 1, Len(kept)) = kept
        /\ tsar' \in Range(players')
        /\ IsWhiteCard(blackCard')]_vars

\* C35: whenever the state is INBETWEENTURN or TSARTURN, every member other
\* than the tsar has exactly blackCard.getFillCount() entries in played, so
\* that every choice can be rendered, also when players join during the
\* tsar's turn
C35_ChoicesComplete ==
    state \in {"INBETWEENTURN", "TSARTURN"} =>
        \A p \in Range(players) :
            p # tsar => Len(played[p]) = getFillCount(blackCard)

C37_GameEnds ==
    /\ (state = "PLAYING") ~> (state = "TSARTURN")
    /\ Started ~> (state = "ENDGAME")

\* the last call announced its change of state from `from` to `to`:
\* "state:leaving" of `from`, and later "state:entering" of `to`
Announced(from, to) ==
    \E i, j \in 1..Len(last.events) :
        /\ i < j
        /\ last.events[i].kind = "state:leaving" /\ last.events[i].of = from
        /\ last.events[j].kind = "state:entering" /\ last.events[j].of = to

\* the most recent "state:entering" notification names the current state
EnteredIsCurrent == last.entered = state

\* C38: subscribers see the state notifications in transition order: for
\* every successful setState the "state:leaving" notification of the old
\* state precedes the "state:entering" notification of the new state, and
\* after any Game operation returns the most recently emitted
\* "state:entering" notification names the current state, also for the
\* chained DEALING -> PLAYING transition
C38_NotifiedInOrder ==
    last.ret # "throw" =>
        /\ \A k \in 1..Len(last.path) : Announced(last.path[k][1], last.path[k][2])
        /\ EnteredIsCurrent


====
